---- MODULE Spec2Model ----
(***************************************************************************)
(* State-machine model of the LMS web client.                              *)
(*                                                                         *)
(*  - VideoPlayer (web/components/video-player.tsx): the init / re-init    *)
(*    effect, the 100 ms readiness poll, the animation-frame callbacks it  *)
(*    schedules, the YouTube player events, the 1 s progress interval, the *)
(*    hide-controls and click timers and the unmount cleanup.              *)
(*  - AuthProvider (lib/auth-context): bootstrap, login and logout.        *)
(*                                                                         *)
(* React state set by a handler is taken as committed with the handler,    *)
(* except blockedByDomain, whose first value is decided by an effect of    *)
(* the mount commit and so is only seen by the next render.  Closures keep *)
(* what they captured: a poll timer and an animation-frame callback carry  *)
(* the resolved id and the lesson of the render that created them.         *)
(*                                                                         *)
(* The variable event holds what the last step did that an observer could  *)
(* see (a callback invoked, a player constructed, a command sent); every   *)
(* action sets it.  The variable authEvent does the same for AuthProvider. *)
(***************************************************************************)
EXTENDS Integers, Sequences, FiniteSets, TLC

\* ------------------------------------------------------------------ bounds
MaxRaf == 2
MaxTime == 20
MaxRequests == 2
\* Requests of one dialog in flight at once.
MaxInFlight == 2

\* ------------------------------------------------------- program constants
maxAttempts == 20
SeekMargin == 5
CompletedPercent == 95

\* ------------------------------------------------------------------ values
None == "none"
Undefined == -1

Lessons == {"L1", "L2"}
VideoInputs == {"null", "bad", "rawA", "urlA", "rawB"}
Hostnames == { <<"lms", "pacelab", "in">>, <<"x", "vercel", "app">>, <<"evil", "example">> }
\* What getCurrentTime() and getDuration() return: undefined, or seconds.
RawTimes == {Undefined, MaxTime - 6, MaxTime - 5, MaxTime - 1}
RawDurations == {Undefined, MaxTime}

NoPoll == [h |-> 0, id |-> None, key |-> None]
NoProgress == [h |-> 0, key |-> None]
NoPlayer == [id |-> None, key |-> None, api |-> FALSE, live |-> FALSE]
NoTimeout == [pending |-> FALSE, playing |-> FALSE]

\* A localStorage item: absent, text that JSON.parse rejects, or JSON whose
\* member t is a number or (t = Undefined) something else.
NoItem == [kind |-> "absent", t |-> Undefined]
Garbage == [kind |-> "garbage", t |-> Undefined]
JsonNoNumber == [kind |-> "json", t |-> Undefined]
JsonAt(t) == [kind |-> "json", t |-> t]

\* The observable outcome of a step.
Ev(kind) == [kind |-> kind, id |-> None, key |-> None, x |-> Undefined, y |-> Undefined,
             b |-> FALSE, rx |-> Undefined, ry |-> Undefined]

VARIABLES
    hostname, phase, mountedRef, youtubeVideoId, lessonId,
    blockedByDomain, pendingBlocked, ytApi, hostEl,
    effectCleanup, pollIntervalRef, pollTimers, rafQueue,
    playerInitRef, playerRef, constructedInCycle,
    isReady, isPlaying, currentTime, duration, videoIdError,
    progressIntervalRef, progressTimers,
    showControls, hideTimer, clickTimer,
    storage, event

propVars == << hostname, phase, mountedRef, youtubeVideoId, lessonId,
               blockedByDomain, pendingBlocked, ytApi, hostEl >>
pollVars == << effectCleanup, pollIntervalRef, pollTimers >>
playerVars == << playerInitRef, playerRef, constructedInCycle >>
stateVars == << isReady, isPlaying, currentTime, duration, videoIdError >>
progressVars == << progressIntervalRef, progressTimers >>
uiVars == << showControls, hideTimer, clickTimer >>

vpVars == << propVars, pollVars, rafQueue, playerVars, stateVars, progressVars, uiVars,
             storage, event >>

VARIABLES
    authPhase, active, storedToken, user, loading, boot, loginCall, logoutCall, authEvent

authVars == << authPhase, active, storedToken, user, loading, boot, loginCall, logoutCall,
               authEvent >>

\* The dashboard's student-courses query: idle, its request in flight, or the
\* logout it awaits after a 401 / 403 in flight.
VARIABLES dashCall

dashVars == << dashCall >>

\* The course page around the VideoPlayer: selectedLesson.status of the
\* page's current render (None when the parent is not the course page), the
\* status seen by the onProgress closure that the init effect's render passed,
\* the automatic completion requests sent, the player's position and the
\* seconds of video that were played.
VARIABLES pageStatus, cbStatus, autoRequests, playerPos, playedSecs

pageKeptVars == << pageStatus, autoRequests, playerPos, playedSecs >>
pageVars == << pageStatus, cbStatus, autoRequests, playerPos, playedSecs >>

\* The interaction shield: whether a touch was handled less than 700 ms ago
\* (lastTouchRef against Date.now()).
VARIABLES recentTouch

shieldVars == << recentTouch >>

\* The Navbar: the user its render took from the auth context, the hrefs of
\* the navigation items that render produced, the current pathname, the
\* mobile menu, and whether a logout it started is in flight.
VARIABLES navUser, navItems, pathname, mobileOpen, navLogoutPending

navVars == << navUser, navItems, pathname, mobileOpen, navLogoutPending >>

\* BulkUserUploadDialog: the file state, the parent's open state, the files
\* of the upload requests in flight, and the outcome of the last step.
VARIABLES bulkFile, bulkOpen, bulkCalls, bulkEvent

bulkVars == << bulkFile, bulkOpen, bulkCalls, bulkEvent >>

\* EditUserDialog: the open and user props, the formData state, the payloads
\* of the PATCH requests in flight, and the outcome of the last step.
VARIABLES editOpen, editUser, formData, editCalls, editEvent

editVars == << editOpen, editUser, formData, editCalls, editEvent >>

\* The bounded-polling revision of the player's init effect: the component's
\* phase, the video input, window.YT being there, the poll interval being set,
\* initAttempts.count of the current effect run, playerInitRef, playerRef
\* holding a player, and videoIdError.
VARIABLES revPhase, revVideo, revApi, revPoll, revCount, revInitRef, revPlayer, revError

revVars == << revPhase, revVideo, revApi, revPoll, revCount, revInitRef, revPlayer, revError >>

\* All of them, and all but one component's.
restVars == << dashVars, pageVars, shieldVars, navVars, bulkVars, editVars, revVars >>
nonDashVars == << pageVars, shieldVars, navVars, bulkVars, editVars, revVars >>
nonPageVars == << dashVars, shieldVars, navVars, bulkVars, editVars, revVars >>
nonShieldVars == << dashVars, pageVars, navVars, bulkVars, editVars, revVars >>
nonNavVars == << dashVars, pageVars, shieldVars, bulkVars, editVars, revVars >>
nonBulkVars == << dashVars, pageVars, shieldVars, navVars, editVars, revVars >>
nonEditVars == << dashVars, pageVars, shieldVars, navVars, bulkVars, revVars >>
nonRevVars == << dashVars, pageVars, shieldVars, navVars, bulkVars, editVars >>

vars == << vpVars, authVars, restVars >>

NoDashCall == [pc |-> "idle", status |-> 0]

\* Each component other than VideoPlayer and AuthProvider at rest.
DashRest == dashCall = NoDashCall

PageRest ==
    /\ pageStatus = None
    /\ cbStatus = None
    /\ autoRequests = 0
    /\ playerPos = 0
    /\ playedSecs = 0

ShieldRest == recentTouch = FALSE

\* ------------------------------------------------------- pure functions

\* parseYouTubeId: a bare 11-character id or a URL carrying one resolves to
\* the id; null, "" and anything else resolve to null.
parseYouTubeId(input) ==
    CASE input = "rawA" -> "A"
      [] input = "urlA" -> "A"
      [] input = "rawB" -> "B"
      [] OTHER -> None

ALLOWED_HOSTS == { <<"pacelab-lms-web", "vercel", "app">>, <<"lms", "pacelab", "in">>,
                   <<"localhost">>, <<"127", "0", "0", "1">> }

\* hostname.endsWith(".vercel.app"), on a hostname held as its labels
EndsWithVercelApp(h) ==
    /\ Len(h) >= 3
    /\ h[Len(h) - 1] = "vercel"
    /\ h[Len(h)] = "app"

isAllowedHost(h) ==
    IF h = <<>> THEN FALSE
    ELSE IF EndsWithVercelApp(h) THEN TRUE
    ELSE h \in ALLOWED_HOSTS

\* x ?? dflt
Coalesce(x, dflt) == IF x = Undefined THEN dflt ELSE x

CompletedStrict(current, total) ==
    total > 0 /\ (current * 100) > CompletedPercent * total

\* total > 0 && current / total >= 0.95
Completed(current, total) ==
    total > 0 /\ (current * 100) >= CompletedPercent * total

\* JSON.stringify({ t: current, ... }) as stored by a progress tick
StringifyRecord(current) == JsonAt(current)

\* onPlayerReady's test of the saved item: the position to seek to, or
\* Undefined when no seek is issued.
SeekTarget(saved, d) ==
    IF saved.kind = "json" /\ saved.t # Undefined /\ saved.t > 0 /\ saved.t < d - SeekMargin
    THEN saved.t
    ELSE Undefined

\* A timer id the browser has not handed out among the timers of table S.
FreshHandle(S) == CHOOSE n \in 1..(Cardinality(S) + 1) : \A t \in S : t.h # n


\* ----------------------------------------------------------- VideoPlayer

\* The state after the first render, before the mount commit's effects.
InitVPWith(hosts, inputs, items) ==
    /\ hostname \in hosts
    /\ phase = "init"
    /\ mountedRef = FALSE
    /\ youtubeVideoId \in inputs
    /\ lessonId = "L1"
    /\ blockedByDomain = FALSE
    /\ pendingBlocked = FALSE
    /\ ytApi \in BOOLEAN
    /\ hostEl = "null"
    /\ effectCleanup = FALSE
    /\ pollIntervalRef = NoPoll
    /\ pollTimers = {}
    /\ rafQueue = <<>>
    /\ playerInitRef = FALSE
    /\ playerRef = NoPlayer
    /\ constructedInCycle = 0
    /\ isReady = FALSE
    /\ isPlaying = FALSE
    /\ currentTime = 0
    /\ duration = 0
    /\ videoIdError = None
    /\ progressIntervalRef = NoProgress
    /\ progressTimers = {}
    /\ showControls = TRUE
    /\ hideTimer = NoTimeout
    /\ clickTimer = NoTimeout
    /\ storage \in {[l \in Lessons |-> i] : i \in items}
    /\ event = Ev("step")

\* clearProgressInterval
ProgressTimersCleared ==
    IF progressIntervalRef # NoProgress THEN progressTimers \ {progressIntervalRef}
    ELSE progressTimers

\* The cleanup the previous run of the init effect returned, if it returned one:
\* clearInterval(pollIntervalRef.current); pollIntervalRef.current = null.
PollTimersAfterCleanup ==
    IF effectCleanup /\ pollIntervalRef # NoPoll THEN pollTimers \ {pollIntervalRef}
    ELSE pollTimers

PollRefAfterCleanup == IF effectCleanup THEN NoPoll ELSE pollIntervalRef

\* The three early returns of the init effect: it goes on to start the poll
\* only on an allowed domain with an id that resolves.
EffectStartsPoll(input, blocked) ==
    /\ ~blocked
    /\ input # "null"
    /\ parseYouTubeId(input) # None

\* One run of the init / re-init effect (preceded by the previous run's
\* cleanup) in a render whose props are input and lesson and whose
\* blockedByDomain state is blocked.
RunInitEffect(input, blocked, lesson) ==
    LET starts == EffectStartsPoll(input, blocked)
        timer == [h |-> FreshHandle(PollTimersAfterCleanup),
                  id |-> parseYouTubeId(input), key |-> lesson]
    IN  /\ constructedInCycle' = 0
        /\ progressTimers' = ProgressTimersCleared
        /\ progressIntervalRef' = NoProgress
        /\ isReady' = FALSE
        /\ isPlaying' = FALSE
        /\ currentTime' = 0
        /\ duration' = 0
        /\ videoIdError' = IF ~blocked /\ input # "null" /\ parseYouTubeId(input) = None
                           THEN "invalid" ELSE None
        /\ playerInitRef' = FALSE
        /\ pollTimers' = IF starts THEN PollTimersAfterCleanup \cup {timer}
                         ELSE PollTimersAfterCleanup
        /\ pollIntervalRef' = IF starts THEN timer ELSE PollRefAfterCleanup
        /\ effectCleanup' = starts
        /\ cbStatus' = pageStatus
        /\ event' = Ev("step")

\* The mount commit: React attaches the host element, then the effects run in
\* order with the state of the first render (blockedByDomain = false): the
\* domain lock queues its state update, mountedRef is set, the init effect runs.
Mount ==
    /\ phase = "init"
    /\ phase' = "mounted"
    /\ hostEl' \in {"attached", "detached"}
    /\ pendingBlocked' = (~isAllowedHost(hostname) # blockedByDomain)
    /\ mountedRef' = TRUE
    /\ RunInitEffect(youtubeVideoId, blockedByDomain, lessonId)
    /\ UNCHANGED << hostname, youtubeVideoId, lessonId, blockedByDomain, ytApi,
                    rafQueue, playerRef, uiVars, storage, authVars, nonPageVars, pageKeptVars >>

\* The render that follows setBlockedByDomain(true): the init effect's
\* dependency changed, so its cleanup and then the effect run again.
RenderBlocked ==
    /\ phase = "mounted"
    /\ pendingBlocked
    /\ blockedByDomain' = ~blockedByDomain
    /\ pendingBlocked' = FALSE
    /\ RunInitEffect(youtubeVideoId, ~blockedByDomain, lessonId)
    /\ UNCHANGED << hostname, phase, mountedRef, youtubeVideoId, lessonId, ytApi, hostEl,
                    rafQueue, playerRef, uiVars, storage, authVars, nonPageVars, pageKeptVars >>

\* The parent passes a new video input: the render also takes a queued
\* blockedByDomain update, and the init effect re-runs.
VideoChange(input, lesson) ==
    /\ phase = "mounted"
    /\ input # youtubeVideoId
    /\ youtubeVideoId' = input
    /\ lessonId' = lesson
    /\ blockedByDomain' = (IF pendingBlocked THEN ~blockedByDomain ELSE blockedByDomain)
    /\ pendingBlocked' = FALSE
    /\ RunInitEffect(input, blockedByDomain', lesson)
    /\ UNCHANGED << hostname, phase, mountedRef, ytApi, hostEl,
                    rafQueue, playerRef, uiVars, storage, authVars, nonPageVars, pageKeptVars >>

\* The parent passes another lessonId with the same video input: no dependency
\* of the init effect changed, so the render runs no effect.
LessonChange(lesson) ==
    /\ phase = "mounted"
    /\ ~pendingBlocked
    /\ lesson # lessonId
    /\ lessonId' = lesson
    /\ event' = Ev("step")
    /\ UNCHANGED << hostname, phase, mountedRef, youtubeVideoId,
                    blockedByDomain, pendingBlocked, ytApi, hostEl,
                    pollVars, rafQueue, playerVars, stateVars, progressVars, uiVars,
                    storage, authVars, restVars >>

\* The iframe_api script finishes loading: window.YT.Player exists from now on.
ApiLoaded ==
    /\ ~ytApi
    /\ ytApi' = TRUE
    /\ event' = Ev("step")
    /\ UNCHANGED << hostname, phase, mountedRef, youtubeVideoId, lessonId,
                    blockedByDomain, pendingBlocked, hostEl,
                    pollVars, rafQueue, playerVars, stateVars, progressVars, uiVars,
                    storage, authVars, restVars >>

\* The host element becomes part of the live document.
HostAttached ==
    /\ phase = "mounted"
    /\ hostEl = "detached"
    /\ hostEl' = "attached"
    /\ event' = Ev("step")
    /\ UNCHANGED << hostname, phase, mountedRef, youtubeVideoId, lessonId,
                    blockedByDomain, pendingBlocked, ytApi,
                    pollVars, rafQueue, playerVars, stateVars, progressVars, uiVars,
                    storage, authVars, restVars >>

\* tryInit's guards: it schedules an animation-frame callback only when the
\* component is mounted, no player was initialised, the host element is in the
\* live document and window.YT.Player exists.
TryInitSchedules ==
    /\ mountedRef
    /\ ~playerInitRef
    /\ hostEl = "attached"
    /\ ytApi

PollNeverClears == FALSE

\* The poll callback's test after tryInit: clear the poll once a player was
\* initialised.
PollShouldClear == playerInitRef /\ pollIntervalRef # NoPoll

\* One tick of a 100 ms poll timer: tryInit(), then the clearing test.  The
\* callback scheduled carries what the timer's closure captured.
PollTick(t) ==
    /\ t \in pollTimers
    /\ TryInitSchedules => Len(rafQueue) < MaxRaf
    /\ rafQueue' = IF TryInitSchedules
                   THEN Append(rafQueue, [id |-> t.id, key |-> t.key])
                   ELSE rafQueue
    /\ pollTimers' = IF PollShouldClear THEN pollTimers \ {pollIntervalRef} ELSE pollTimers
    /\ pollIntervalRef' = IF PollShouldClear THEN NoPoll ELSE pollIntervalRef
    /\ event' = Ev("step")
    /\ UNCHANGED << propVars, effectCleanup, playerVars, stateVars, progressVars, uiVars,
                    storage, authVars, restVars >>

RafNeverAlreadyInit == FALSE

\* The animation-frame callback's guards before it initialises the player.
RafAlreadyInit == playerInitRef
RafHostMissing == hostEl # "attached"

\* An animation-frame callback that returns at one of its guards.
RafSkip ==
    /\ rafQueue # <<>>
    /\ RafAlreadyInit \/ RafHostMissing
    /\ rafQueue' = Tail(rafQueue)
    /\ event' = [Ev(IF RafAlreadyInit THEN "raf-skip-init" ELSE "raf-skip-host")
                    EXCEPT !.id = Head(rafQueue).id, !.key = Head(rafQueue).key]
    /\ UNCHANGED << propVars, pollVars, playerVars, stateVars, progressVars, uiVars,
                    storage, authVars, restVars >>

\* An animation-frame callback that passes its guards, sets playerInitRef and
\* calls initPlayer with the id its closure captured; new YT.Player returns.
\* The host was emptied first, which removes the previous player's iframe.
RafConstruct ==
    /\ rafQueue # <<>>
    /\ ~(RafAlreadyInit \/ RafHostMissing)
    /\ playerRef' = [id |-> Head(rafQueue).id, key |-> Head(rafQueue).key,
                     api |-> FALSE, live |-> TRUE]
    /\ playerInitRef' = TRUE
    /\ constructedInCycle' = constructedInCycle + 1
    /\ rafQueue' = Tail(rafQueue)
    /\ event' = [Ev("constructed")
                    EXCEPT !.id = Head(rafQueue).id, !.key = Head(rafQueue).key]
    /\ UNCHANGED << propVars, pollVars, stateVars, progressVars, uiVars,
                    storage, authVars, restVars >>

\* As RafConstruct, but new YT.Player throws: initPlayer's catch resets
\* playerInitRef and sets the error.  playerRef keeps the previous player,
\* whose iframe is gone.
RafThrow ==
    /\ rafQueue # <<>>
    /\ ~(RafAlreadyInit \/ RafHostMissing)
    /\ playerRef' = [playerRef EXCEPT !.live = FALSE]
    /\ playerInitRef' = FALSE
    /\ videoIdError' = "initfail"
    /\ rafQueue' = Tail(rafQueue)
    /\ event' = [Ev("threw")
                    EXCEPT !.id = Head(rafQueue).id, !.key = Head(rafQueue).key]
    /\ UNCHANGED << propVars, pollVars, constructedInCycle,
                    isReady, isPlaying, currentTime, duration, progressVars, uiVars,
                    storage, authVars, restVars >>


\* startProgressInterval from a handler whose closure has storage key `key`:
\* the previous interval is cleared, a new one is set.
NewProgressTimer(key) == [h |-> FreshHandle(ProgressTimersCleared), key |-> key]

\* onReady of the player in playerRef, whose getDuration() returns dRaw.  The
\* handler is the one of the render that ran the init effect, so its
\* storageKey is the lesson captured then.
PlayerReady(dRaw) ==
    /\ playerRef.live
    /\ ~playerRef.api
    /\ LET d == Coalesce(dRaw, 0)
           target == SeekTarget(storage[playerRef.key], d)
       IN  /\ duration' = d
           /\ currentTime' = IF target # Undefined THEN target ELSE currentTime
           /\ event' = [Ev("ready") EXCEPT !.id = playerRef.id, !.key = playerRef.key,
                                           !.x = target, !.y = d]
    /\ isReady' = TRUE
    /\ playerRef' = [playerRef EXCEPT !.api = TRUE]
    /\ progressTimers' = ProgressTimersCleared \cup {NewProgressTimer(playerRef.key)}
    /\ progressIntervalRef' = NewProgressTimer(playerRef.key)
    /\ UNCHANGED << propVars, pollVars, rafQueue, playerInitRef, constructedInCycle,
                    isPlaying, videoIdError, uiVars, storage, authVars, restVars >>

\* onStateChange of the player in playerRef.
PlayerStateChange(playing) ==
    /\ playerRef.live
    /\ playerRef.api
    /\ isPlaying' = playing
    /\ showControls' = ~playing
    /\ progressTimers' = IF playing
                         THEN ProgressTimersCleared \cup {NewProgressTimer(playerRef.key)}
                         ELSE progressTimers
    /\ progressIntervalRef' = IF playing THEN NewProgressTimer(playerRef.key)
                              ELSE progressIntervalRef
    /\ event' = Ev("step")
    /\ UNCHANGED << propVars, pollVars, rafQueue, playerVars,
                    isReady, currentTime, duration, videoIdError,
                    hideTimer, clickTimer, storage, authVars, restVars >>

\* onError of the player in playerRef.
PlayerError ==
    /\ playerRef.live
    /\ videoIdError' = "yterror"
    /\ event' = Ev("step")
    /\ UNCHANGED << propVars, pollVars, rafQueue, playerVars,
                    isReady, isPlaying, currentTime, duration,
                    progressVars, uiVars, storage, authVars, restVars >>

\* The course page's onProgress test: completed && selectedLesson.status !==
\* 'COMPLETED', with the selectedLesson of the closure.
SendsCompletion(completed) ==
    pageStatus # None /\ completed /\ cbStatus # "COMPLETED"

\* The onProgress prop as the progress interval calls it: the course page's
\* handler calls markCompletedMutation.mutate, which sends the request; any
\* other parent's callback changes nothing modelled here.
onProgress(completed) ==
    /\ autoRequests' = IF SendsCompletion(completed) THEN autoRequests + 1
                       ELSE autoRequests
    /\ UNCHANGED << pageStatus, cbStatus, playerPos, playedSecs >>

\* The progress callback's early return: no player, or a player that does not
\* expose getCurrentTime / getDuration yet.
TickHasPlayer == playerRef # NoPlayer /\ playerRef.api

\* One tick of the 1 s progress interval whose closure has storage key t.key;
\* the player returns curRaw and totRaw.  setItem may throw (wrote = FALSE);
\* the callback goes on to onProgress.
ProgressTick(t, curRaw, totRaw, wrote) ==
    /\ t \in progressTimers
    /\ IF ~TickHasPlayer
       THEN /\ event' = Ev("tick-return")
            /\ UNCHANGED << currentTime, duration, storage, pageVars >>
       ELSE LET current == Coalesce(curRaw, 0)
                total == Coalesce(totRaw, 0)
            IN  /\ currentTime' = current
                /\ duration' = total
                /\ storage' = IF wrote
                              THEN [storage EXCEPT ![t.key] = StringifyRecord(current)]
                              ELSE storage
                /\ event' = [Ev("onProgress") EXCEPT
                                !.key = t.key, !.x = current, !.y = total,
                                !.b = Completed(current, total),
                                !.rx = curRaw, !.ry = totRaw]
                /\ onProgress(Completed(current, total))
    /\ UNCHANGED << propVars, pollVars, rafQueue, playerVars,
                    isReady, isPlaying, videoIdError, progressVars, uiVars, authVars,
                    nonPageVars >>

\* handleMouseMove: show the controls and restart the 3 s hide timeout, whose
\* callback keeps the isPlaying of this render.
MouseMove ==
    /\ phase = "mounted"
    /\ showControls' = TRUE
    /\ hideTimer' = [pending |-> TRUE, playing |-> isPlaying]
    /\ event' = Ev("step")
    /\ UNCHANGED << propVars, pollVars, rafQueue, playerVars, stateVars, progressVars,
                    clickTimer, storage, authVars, restVars >>

\* The hide timeout fires.
HideFire ==
    /\ hideTimer.pending
    /\ showControls' = IF hideTimer.playing THEN FALSE ELSE showControls
    /\ hideTimer' = NoTimeout
    /\ event' = Ev("step")
    /\ UNCHANGED << propVars, pollVars, rafQueue, playerVars, stateVars, progressVars,
                    clickTimer, storage, authVars, restVars >>

\* handleShieldTap's first test: a mouse click less than 700 ms after a touch
\* is taken for the synthetic click of that touch and ignored.
TapIgnored(isTouch) == ~isTouch /\ recentTouch

\* The click timeout after handleShieldTap, the timeout being `timer` before:
\* a second tap while it is pending clears it; otherwise the 280 ms timeout
\* is set, whose callback keeps the togglePlay of this render.
TimerAfterTap(isTouch, timer) ==
    IF TapIgnored(isTouch) THEN timer
    ELSE IF timer.pending THEN NoTimeout
    ELSE [pending |-> TRUE, playing |-> isPlaying]

\* The calls of toggleFullscreen that handleShieldTap makes: one for a second
\* tap while the click timeout is pending.
TapFullscreenCalls(isTouch) ==
    IF ~TapIgnored(isTouch) /\ clickTimer.pending THEN 1 ELSE 0

\* A fullscreen event: n calls of toggleFullscreen, on a tap that came while
\* the click timeout of an earlier tap was pending (within).
FullscreenEv(n, within) == [Ev("fullscreen") EXCEPT !.x = n, !.b = within]

\* A click or a touch on the shield (onClick, onTouchStart): handleShieldTap.
ShieldTap(isTouch) ==
    /\ phase = "mounted"
    /\ recentTouch' = (isTouch \/ recentTouch)
    /\ clickTimer' = TimerAfterTap(isTouch, clickTimer)
    /\ event' = IF TapFullscreenCalls(isTouch) > 0
                THEN FullscreenEv(TapFullscreenCalls(isTouch), TRUE)
                ELSE Ev("step")
    /\ UNCHANGED << propVars, pollVars, rafQueue, playerVars, stateVars, progressVars,
                    showControls, hideTimer, storage, authVars, nonShieldVars >>

\* The calls of toggleFullscreen that the shield's onDoubleClick makes.
DblClickCalls == 1

\* The second click of a mouse double click: the browser dispatches click
\* (onClick: handleShieldTap) and then dblclick (onDoubleClick:
\* toggleFullscreen) in the same task.
ShieldDoubleClick ==
    /\ phase = "mounted"
    /\ UNCHANGED recentTouch
    /\ clickTimer' = TimerAfterTap(FALSE, clickTimer)
    /\ event' = IF TapFullscreenCalls(FALSE) + DblClickCalls > 0
                THEN FullscreenEv(TapFullscreenCalls(FALSE) + DblClickCalls,
                                  clickTimer.pending)
                ELSE Ev("step")
    /\ UNCHANGED << propVars, pollVars, rafQueue, playerVars, stateVars, progressVars,
                    showControls, hideTimer, storage, authVars, nonShieldVars >>

\* 700 ms pass after the last touch.
TouchAges ==
    /\ recentTouch
    /\ recentTouch' = FALSE
    /\ event' = Ev("step")
    /\ UNCHANGED << propVars, pollVars, rafQueue, playerVars, stateVars, progressVars,
                    uiVars, storage, authVars, nonShieldVars >>

\* The click timeout fires: togglePlay, which returns when playerRef is null.
ClickFire ==
    /\ clickTimer.pending
    /\ clickTimer' = NoTimeout
    /\ event' = IF playerRef = NoPlayer THEN Ev("step")
                ELSE [Ev("command") EXCEPT
                         !.id = IF clickTimer.playing THEN "pauseVideo" ELSE "playVideo"]
    /\ UNCHANGED << propVars, pollVars, rafQueue, playerVars, stateVars, progressVars,
                    showControls, hideTimer, storage, authVars, restVars >>

\* What the unmount cleanups leave of each timer table.  The init effect's
\* cleanup and the unmount effect's cleanup both clear the poll by its ref;
\* the unmount effect's cleanup clears the other three by their refs.
PollTimersAfterUnmount ==
    IF pollIntervalRef # NoPoll THEN pollTimers \ {pollIntervalRef} ELSE pollTimers

ProgressTimersKept == progressTimers

ProgressTimersAfterUnmount == ProgressTimersCleared

\* Unmount: React detaches the host ref, then the effect cleanups run in
\* order: mountedRef = false, the init effect's cleanup, the unmount effect's
\* cleanup (clear the four timers, destroyPlayer).
Unmount ==
    /\ phase = "mounted"
    /\ phase' = "unmounted"
    /\ hostEl' = "null"
    /\ mountedRef' = FALSE
    /\ pendingBlocked' = FALSE
    /\ pollTimers' = PollTimersAfterUnmount
    /\ pollIntervalRef' = PollRefAfterCleanup
    /\ progressTimers' = ProgressTimersAfterUnmount
    /\ hideTimer' = NoTimeout
    /\ clickTimer' = NoTimeout
    /\ playerRef' = NoPlayer
    /\ playerInitRef' = FALSE
    /\ event' = Ev("step")
    /\ UNCHANGED << hostname, youtubeVideoId, lessonId, blockedByDomain, ytApi,
                    effectCleanup, rafQueue, constructedInCycle, stateVars,
                    progressIntervalRef, showControls, storage, authVars, restVars >>


\* onMouseLeave of the container: isPlaying && setShowControls(false).
MouseLeave ==
    /\ phase = "mounted"
    /\ showControls' = IF isPlaying THEN FALSE ELSE showControls
    /\ event' = Ev("step")
    /\ UNCHANGED << propVars, pollVars, rafQueue, playerVars, stateVars, progressVars,
                    hideTimer, clickTimer, storage, authVars, restVars >>

\* p.method?.(): the call is made when playerRef holds a player that exposes
\* its API methods.
CommandReaches == playerRef # NoPlayer /\ playerRef.api

\* The keys of the keyboard handler that command the player.
PlayerKeys == {"k", "arrowleft", "arrowright"}

Max(a, b) == IF a >= b THEN a ELSE b
Min(a, b) == IF a <= b THEN a ELSE b

\* The command a key sends: togglePlay for " " / "k", seekTo five seconds back
\* or forward for the arrows, with the state of the current render.
KeyCommand(key) ==
    CASE key = "k" -> [Ev("command") EXCEPT
                          !.id = IF isPlaying THEN "pauseVideo" ELSE "playVideo"]
      [] key = "arrowleft" -> [Ev("command") EXCEPT
                          !.id = "seekTo", !.x = Max(0, currentTime - 5)]
      [] key = "arrowright" -> [Ev("command") EXCEPT
                          !.id = "seekTo", !.x = Min(duration, currentTime + 5)]

\* keydown with the focus inside the container: the handler tests only
\* containerRef and the focus before it calls the wrapper for the key.
KeyDown(key) ==
    /\ phase = "mounted"
    /\ event' = IF CommandReaches THEN KeyCommand(key) ELSE Ev("step")
    /\ playerPos' = IF CommandReaches /\ key # "k" THEN KeyCommand(key).x ELSE playerPos
    /\ UNCHANGED << propVars, pollVars, rafQueue, playerVars, stateVars, progressVars,
                    uiVars, storage, authVars, nonPageVars, pageStatus, cbStatus,
                    autoRequests, playedSecs >>

\* The play / pause button of the controls, enabled: togglePlay.
PlayButton ==
    /\ phase = "mounted"
    /\ ~(~isReady \/ videoIdError # None \/ blockedByDomain)
    /\ event' = IF CommandReaches
                THEN [Ev("command") EXCEPT
                         !.id = IF isPlaying THEN "pauseVideo" ELSE "playVideo"]
                ELSE Ev("step")
    /\ UNCHANGED << propVars, pollVars, rafQueue, playerVars, stateVars, progressVars,
                    uiVars, storage, authVars, restVars >>


\* ----------------------------------------------------------- Course page

LessonStatuses == {"NOT_STARTED", "IN_PROGRESS", "COMPLETED"}

\* The controls are disabled: !isReady || !!videoIdError || blockedByDomain
ControlsDisabled == ~isReady \/ videoIdError # None \/ blockedByDomain

\* handleSeek from the progress slider: seekTo(t) and setCurrentTime(t).
HandleSeek(t) ==
    /\ phase = "mounted"
    /\ ~ControlsDisabled
    /\ playerRef # NoPlayer
    /\ playerPos' = t
    /\ currentTime' = t
    /\ event' = [Ev("command") EXCEPT !.id = "seekTo", !.x = t]
    /\ UNCHANGED << propVars, pollVars, rafQueue, playerVars,
                    isReady, isPlaying, duration, videoIdError, progressVars, uiVars,
                    storage, authVars, nonPageVars, pageStatus, cbStatus, autoRequests,
                    playedSecs >>

\* One second of video plays.
PlaybackAdvance ==
    /\ playerRef.live
    /\ playerRef.api
    /\ isPlaying
    /\ playerPos < MaxTime
    /\ playerPos' = playerPos + 1
    /\ playedSecs' = IF playedSecs < MaxTime THEN playedSecs + 1 ELSE playedSecs
    /\ event' = Ev("step")
    /\ UNCHANGED << propVars, pollVars, rafQueue, playerVars, stateVars, progressVars,
                    uiVars, storage, authVars, nonPageVars, pageStatus, cbStatus,
                    autoRequests >>

\* handleMarkComplete on a lesson that is not completed: the optimistic
\* update of selectedLesson (the request it sends is not an automatic one).
HandleMarkComplete ==
    /\ pageStatus \in LessonStatuses \ {"COMPLETED"}
    /\ pageStatus' = "COMPLETED"
    /\ event' = Ev("step")
    /\ UNCHANGED << propVars, pollVars, rafQueue, playerVars, stateVars, progressVars,
                    uiVars, storage, authVars, nonPageVars, cbStatus, autoRequests,
                    playerPos, playedSecs >>

\* The selected lesson is clicked again in the sidebar: setSelectedLesson with
\* the lesson of the course as last fetched, whose status is the server's.
SelectSameLesson(status) ==
    /\ pageStatus \in LessonStatuses
    /\ pageStatus # status
    /\ pageStatus' = status
    /\ event' = Ev("step")
    /\ UNCHANGED << propVars, pollVars, rafQueue, playerVars, stateVars, progressVars,
                    uiVars, storage, authVars, nonPageVars, cbStatus, autoRequests,
                    playerPos, playedSecs >>


\* ---------------------------------------------------------- AuthProvider

DUMMY_ADMIN_TOKEN == "dummy-token-admin"
DUMMY_ADMIN_ID == "dummy-admin"

Tokens == {"tokA", "tokB"}
StoredAtStart == {None, "", "tokA"}
NoUser == [id |-> None, token |-> None]
\* A user object as the API returns it; it may carry a token member of its own.
Profiles == {[id |-> "u1", token |-> None], [id |-> "u2", token |-> "tokB"]}
\* The body of an OK /auth/login response: access_token and token, at least one.
LoginBodies == {[access_token |-> a, token |-> t, user |-> u] :
                    a \in {None, "tokA"}, t \in {None, "tokB"}, u \in Profiles}
                \ {[access_token |-> None, token |-> None, user |-> u] : u \in Profiles}
\* The body of a non-OK /auth/login response: JSON with a message, with an
\* empty message, or not readable as JSON.
ErrorBodies == {[readable |-> TRUE, message |-> "Invalid credentials"],
                [readable |-> TRUE, message |-> ""],
                [readable |-> FALSE, message |-> ""]}

AEv(kind) == [kind |-> kind, id |-> None, token |-> None, msg |-> None,
              readable |-> FALSE, message |-> None, status |-> 0]

\* The AuthProvider at rest, for specifications of other components.
AuthRest ==
    /\ authPhase = "init"
    /\ active = FALSE
    /\ storedToken = None
    /\ user = NoUser
    /\ loading = TRUE
    /\ boot = [pc |-> "idle", token |-> None, sent |-> FALSE]
    /\ loginCall = "idle"
    /\ logoutCall = "idle"
    /\ authEvent = AEv("step")

InitAuthOnly ==
    /\ authPhase = "init"
    /\ active = FALSE
    /\ storedToken \in StoredAtStart
    /\ user = NoUser
    /\ loading = TRUE
    /\ boot = [pc |-> "idle", token |-> None, sent |-> FALSE]
    /\ loginCall = "idle"
    /\ logoutCall = "idle"
    /\ authEvent = AEv("step")

SpreadTokenFirst(me, token) ==
    [id |-> me.id, token |-> IF me.token # None THEN me.token ELSE token]

\* { ...me, token }
SpreadToken(me, token) == [id |-> me.id, token |-> token]

\* !token, for what localStorage.getItem returned
NoTokenRead(token) == token = None \/ token = ""

\* The bootstrap effect up to its first await: read the token; without one,
\* setLoading(false) and return; with one, send the /auth/me request.
AuthMount ==
    /\ authPhase = "init"
    /\ authPhase' = "mounted"
    /\ active' = TRUE
    /\ IF NoTokenRead(storedToken)
       THEN /\ loading' = FALSE
            /\ boot' = [pc |-> "done", token |-> storedToken, sent |-> FALSE]
            /\ authEvent' = AEv("boot-no-token")
       ELSE /\ loading' = loading
            /\ boot' = [pc |-> "fetching", token |-> storedToken, sent |-> TRUE]
            /\ authEvent' = AEv("boot-request")
    /\ UNCHANGED << storedToken, user, loginCall, logoutCall, vpVars, restVars >>

\* /auth/me answered OK with user me.
BootOk(me) ==
    /\ boot.pc = "fetching"
    /\ boot' = [boot EXCEPT !.pc = "done"]
    /\ user' = IF active THEN SpreadToken(me, boot.token) ELSE user
    /\ loading' = IF active THEN FALSE ELSE loading
    /\ authEvent' = [AEv("boot-ok") EXCEPT !.id = me.id, !.token = boot.token]
    /\ UNCHANGED << authPhase, active, storedToken, loginCall, logoutCall, vpVars, restVars >>

StoredKeptOnBootFail == storedToken

\* What the catch of the bootstrap leaves in storage: removeItem.
StoredAfterBootFail == None

\* /auth/me answered non-OK, the request failed, or its body was unreadable.
BootFail ==
    /\ boot.pc = "fetching"
    /\ boot' = [boot EXCEPT !.pc = "done"]
    /\ storedToken' = StoredAfterBootFail
    /\ user' = IF active THEN NoUser ELSE user
    /\ loading' = IF active THEN FALSE ELSE loading
    /\ authEvent' = AEv("boot-fail")
    /\ UNCHANGED << authPhase, active, loginCall, logoutCall, vpVars, restVars >>

\* login() with the dummy admin's credentials: no request.
LoginDummy ==
    /\ authPhase = "mounted"
    /\ loginCall = "idle"
    /\ storedToken' = DUMMY_ADMIN_TOKEN
    /\ user' = [id |-> DUMMY_ADMIN_ID, token |-> DUMMY_ADMIN_TOKEN]
    /\ authEvent' = [AEv("login-resolved") EXCEPT !.id = DUMMY_ADMIN_ID,
                                                  !.token = DUMMY_ADMIN_TOKEN]
    /\ UNCHANGED << authPhase, active, loading, boot, loginCall, logoutCall, vpVars, restVars >>

\* login() with other credentials: the /auth/login request is sent.
LoginStart ==
    /\ authPhase = "mounted"
    /\ loginCall = "idle"
    /\ loginCall' = "fetching"
    /\ authEvent' = AEv("login-request")
    /\ UNCHANGED << authPhase, active, storedToken, user, loading, boot, logoutCall,
                    vpVars, restVars >>

\* data.access_token ?? data.token
TokenOf(data) == IF data.access_token # None THEN data.access_token ELSE data.token

\* setState of a provider that was unmounted has no effect.
SetUser(u) == IF authPhase = "mounted" THEN u ELSE user

\* /auth/login answered OK with body data.
LoginOk(data) ==
    /\ loginCall = "fetching"
    /\ loginCall' = "idle"
    /\ storedToken' = TokenOf(data)
    /\ user' = SetUser(SpreadToken(data.user, TokenOf(data)))
    /\ authEvent' = [AEv("login-resolved") EXCEPT
                        !.id = SpreadToken(data.user, TokenOf(data)).id,
                        !.token = SpreadToken(data.user, TokenOf(data)).token]
    /\ UNCHANGED << authPhase, active, loading, boot, logoutCall, vpVars, restVars >>

LoginMessageRaw(body) == IF body.readable THEN body.message ELSE "Login failed"

\* msg = 'Login failed'; try { msg = (await res.json()).message || msg } catch {}
LoginMessage(body) ==
    IF body.readable /\ body.message # "" THEN body.message ELSE "Login failed"

\* /auth/login answered non-OK with body: login() throws Error(msg).
LoginNotOk(body) ==
    /\ loginCall = "fetching"
    /\ loginCall' = "idle"
    /\ authEvent' = [AEv("login-rejected") EXCEPT !.msg = LoginMessage(body),
                        !.readable = body.readable, !.message = body.message]
    /\ UNCHANGED << authPhase, active, storedToken, user, loading, boot, logoutCall,
                    vpVars, restVars >>

\* The /auth/login request failed, or an OK answer's body was unreadable:
\* login() throws that error.
LoginThrows ==
    /\ loginCall = "fetching"
    /\ loginCall' = "idle"
    /\ authEvent' = AEv("login-threw")
    /\ UNCHANGED << authPhase, active, storedToken, user, loading, boot, logoutCall,
                    vpVars, restVars >>

\* logout() up to its await: the /auth/logout request is sent.
LogoutStart ==
    /\ authPhase = "mounted"
    /\ logoutCall = "idle"
    /\ logoutCall' = "fetching"
    /\ authEvent' = AEv("logout-request")
    /\ UNCHANGED << authPhase, active, storedToken, user, loading, boot, loginCall,
                    vpVars, restVars >>

LogoutClearsUnlessThrown(outcome) == outcome # "throws"

\* Whether logout() goes on to clear the session after the request ended
\* with outcome: the catch swallows a thrown request, a status is not read.
LogoutClears(outcome) == TRUE

\* The /auth/logout request ended (ok, an error status, or thrown): the
\* token is removed, the user is set to null and logout() resolves.
LogoutDone(outcome) ==
    /\ logoutCall = "fetching"
    /\ logoutCall' = "idle"
    /\ storedToken' = IF LogoutClears(outcome) THEN None ELSE storedToken
    /\ user' = IF LogoutClears(outcome) THEN SetUser(NoUser) ELSE user
    /\ authEvent' = [AEv("logout-resolved") EXCEPT !.msg = outcome]
    /\ UNCHANGED << authPhase, active, loading, boot, loginCall, vpVars, restVars >>

\* The provider unmounts: the bootstrap effect's cleanup sets active = false.
AuthUnmount ==
    /\ authPhase = "mounted"
    /\ authPhase' = "unmounted"
    /\ active' = FALSE
    /\ authEvent' = AEv("step")
    /\ UNCHANGED << storedToken, user, loading, boot, loginCall, logoutCall, vpVars, restVars >>


\* ------------------------------------------------------------ Dashboard

\* HTTP statuses a response may carry, and res.ok.
Statuses == {200, 401, 403, 404, 500}
ResOk(status) == status >= 200 /\ status <= 299

\* A /auth/me answer that carries no id.
NoIdProfile == [id |-> None, token |-> None]

SESSION_EXPIRED == "Your session has expired. Please sign in again."
FETCH_FAILED == "Failed to fetch courses"

\* !!user?.id && !!user?.token
DashHasSession(u) == u.id \notin {None, ""} /\ u.token \notin {None, ""}

\* fetchStudentCourses without a user id or token: returns [] with no request.
FetchCoursesEmpty ==
    /\ dashCall.pc = "idle"
    /\ ~DashHasSession(user)
    /\ authEvent' = AEv("dash-empty")
    /\ UNCHANGED << authPhase, active, storedToken, user, loading, boot, loginCall,
                    logoutCall, vpVars, restVars >>

\* fetchStudentCourses with a session: the courses request is sent.
FetchCoursesStart ==
    /\ authPhase = "mounted"
    /\ dashCall.pc = "idle"
    /\ DashHasSession(user)
    /\ dashCall' = [pc |-> "fetching", status |-> 0]
    /\ authEvent' = [AEv("dash-request") EXCEPT !.id = user.id, !.token = user.token]
    /\ UNCHANGED << authPhase, active, storedToken, user, loading, boot, loginCall,
                    logoutCall, vpVars, nonDashVars >>

DashExpiredOnly401(status) == status = 401

\* res.status === 401 || res.status === 403
DashExpired(status) == status = 401 \/ status = 403

\* text || "Failed to fetch courses"
DashFailureText(text) == IF text # "" THEN text ELSE FETCH_FAILED

\* The courses request is answered with status and body text: on 401 / 403
\* logout() is called and awaited; any other non-OK status throws the body
\* text; an OK answer returns the courses.
FetchCoursesAnswer(status, text) ==
    /\ dashCall.pc = "fetching"
    /\ IF DashExpired(status)
       THEN /\ dashCall' = [pc |-> "logout", status |-> status]
            /\ authEvent' = [AEv("dash-logout-request") EXCEPT !.status = status]
       ELSE IF ~ResOk(status)
       THEN /\ dashCall' = NoDashCall
            /\ authEvent' = [AEv("dash-failed") EXCEPT !.status = status,
                                                       !.msg = DashFailureText(text)]
       ELSE /\ dashCall' = NoDashCall
            /\ authEvent' = [AEv("dash-ok") EXCEPT !.status = status]
    /\ UNCHANGED << authPhase, active, storedToken, user, loading, boot, loginCall,
                    logoutCall, vpVars, nonDashVars >>

\* The courses request itself fails: fetchStudentCourses throws that error.
FetchCoursesThrows ==
    /\ dashCall.pc = "fetching"
    /\ dashCall' = NoDashCall
    /\ authEvent' = [AEv("dash-failed") EXCEPT !.msg = "network"]
    /\ UNCHANGED << authPhase, active, storedToken, user, loading, boot, loginCall,
                    logoutCall, vpVars, nonDashVars >>

\* The logout() awaited after a 401 / 403 resolves (its request having ended
\* with outcome), and fetchStudentCourses throws the session-expired error.
FetchCoursesLoggedOut(outcome) ==
    /\ dashCall.pc = "logout"
    /\ dashCall' = NoDashCall
    /\ storedToken' = IF LogoutClears(outcome) THEN None ELSE storedToken
    /\ user' = IF LogoutClears(outcome) THEN SetUser(NoUser) ELSE user
    /\ authEvent' = [AEv("dash-failed") EXCEPT !.status = dashCall.status,
                                               !.msg = SESSION_EXPIRED]
    /\ UNCHANGED << authPhase, active, loading, boot, loginCall, logoutCall, vpVars, nonDashVars >>


\* --------------------------------------------------------------- Navbar

NoNavUser == [signedIn |-> FALSE, role |-> None]
\* user.role as the API returned it: a Role, another string, or no role.
NavRoles == {"ADMIN", "INSTRUCTOR", "STUDENT", "admin", None}
NavUsers == {NoNavUser} \cup {[signedIn |-> TRUE, role |-> r] : r \in NavRoles}
Pathnames == {"/", "/login", "/courses", "/dashboard", "/admin/users", "/admin/courses"}

IsAdminOnly(role) == role = "ADMIN"

\* user.role === "ADMIN" || user.role === "INSTRUCTOR"
IsStaff(role) == role = "ADMIN" \/ role = "INSTRUCTOR"

\* getNavigationItems, as the hrefs of the items in order.
getNavigationItems(u) ==
    IF ~u.signedIn THEN << "/courses" >>
    ELSE IF IsStaff(u.role) THEN << "/admin/users", "/admin/courses" >>
    ELSE << "/dashboard" >>

NavRest ==
    /\ navUser = NoNavUser
    /\ navItems = getNavigationItems(NoNavUser)
    /\ pathname = "/"
    /\ mobileOpen = FALSE
    /\ navLogoutPending = FALSE

\* The auth context's user changes and the Navbar renders with it.
NavRender(u) ==
    /\ u # navUser
    /\ ~navLogoutPending
    /\ navUser' = u
    /\ navItems' = getNavigationItems(u)
    /\ UNCHANGED << pathname, mobileOpen, navLogoutPending, vpVars, authVars, nonNavVars >>

\* A navigation item of the desktop bar is followed.
NavFollow(i) ==
    /\ i \in 1..Len(navItems)
    /\ pathname' = navItems[i]
    /\ UNCHANGED << navUser, navItems, mobileOpen, navLogoutPending,
                    vpVars, authVars, nonNavVars >>

\* The route changes by a navigation outside the bar: usePathname().
NavNavigate(path) ==
    /\ path # pathname
    /\ pathname' = path
    /\ UNCHANGED << navUser, navItems, mobileOpen, navLogoutPending,
                    vpVars, authVars, nonNavVars >>

\* The mobile menu button: setMobileOpen((s) => !s).
NavToggleMobile ==
    /\ mobileOpen' = ~mobileOpen
    /\ UNCHANGED << navUser, navItems, pathname, navLogoutPending,
                    vpVars, authVars, nonNavVars >>

\* A navigation item of the mobile menu is followed: setMobileOpen(false).
NavFollowMobile(i) ==
    /\ mobileOpen
    /\ i \in 1..Len(navItems)
    /\ pathname' = navItems[i]
    /\ mobileOpen' = FALSE
    /\ UNCHANGED << navUser, navItems, navLogoutPending, vpVars, authVars, nonNavVars >>

\* handleLogout: logout() is started and router.push("/login").
NavLogout ==
    /\ navUser.signedIn
    /\ ~navLogoutPending
    /\ navLogoutPending' = TRUE
    /\ pathname' = "/login"
    /\ UNCHANGED << navUser, navItems, mobileOpen, vpVars, authVars, nonNavVars >>

\* The logout resolves: the context's user is null and the Navbar renders.
NavLogoutDone ==
    /\ navLogoutPending
    /\ navLogoutPending' = FALSE
    /\ navUser' = NoNavUser
    /\ navItems' = getNavigationItems(NoNavUser)
    /\ pathname' = "/login"
    /\ UNCHANGED << mobileOpen, vpVars, authVars, nonNavVars >>


\* ------------------------------------------------- BulkUserUploadDialog

CsvFiles == {"a.csv", "b.csv"}
SELECT_CSV == "Please select a CSV file"
UPLOAD_FAILED == "Failed to upload users"
\* The response of POST /users/bulk-upload: OK with a JSON body, OK with a
\* body res.json() rejects, non-OK with and without a message, fetch rejecting.
UploadOutcomes == {"ok", "okNoJson", "notOk", "notOkNoMessage", "throws"}

BEv(kind, outcome, calls, msg) ==
    [kind |-> kind, outcome |-> outcome, calls |-> calls, msg |-> msg]

BulkRest ==
    /\ bulkFile = None
    /\ bulkOpen = FALSE
    /\ bulkCalls = << >>
    /\ bulkEvent = BEv("none", None, << >>, None)

\* The parent opens the dialog.
BulkOpen ==
    /\ ~bulkOpen
    /\ bulkOpen' = TRUE
    /\ bulkEvent' = BEv("open", None, << >>, None)
    /\ UNCHANGED << bulkFile, bulkCalls, vpVars, authVars, nonBulkVars >>

\* Cancel, or the dialog's own close: onOpenChange(false).
BulkCancel ==
    /\ bulkOpen
    /\ bulkOpen' = FALSE
    /\ bulkEvent' = BEv("cancel", None, << "onOpenChange(false)" >>, None)
    /\ UNCHANGED << bulkFile, bulkCalls, vpVars, authVars, nonBulkVars >>

\* The file input's onChange: setFile(e.target.files?.[0] ?? null).
BulkChooseFile(f) ==
    /\ bulkOpen
    /\ f # bulkFile
    /\ bulkFile' = f
    /\ bulkEvent' = BEv("choose", None, << >>, None)
    /\ UNCHANGED << bulkOpen, bulkCalls, vpVars, authVars, nonBulkVars >>

\* handleSubmit with no file: mutationFn throws before fetch; onError toasts.
BulkSubmitNoFile ==
    /\ bulkOpen
    /\ bulkFile = None
    /\ bulkEvent' = BEv("submit", "noFile", << >>, SELECT_CSV)
    /\ UNCHANGED << bulkFile, bulkOpen, bulkCalls, vpVars, authVars, nonBulkVars >>

\* handleSubmit with a file: the request is sent.
BulkSubmit ==
    /\ bulkOpen
    /\ bulkFile # None
    /\ Len(bulkCalls) < MaxInFlight
    /\ bulkCalls' = Append(bulkCalls, bulkFile)
    /\ bulkEvent' = BEv("submit", "sent", << >>, None)
    /\ UNCHANGED << bulkFile, bulkOpen, vpVars, authVars, nonBulkVars >>

RemoveAt(seq, i) == SubSeq(seq, 1, i - 1) \o SubSeq(seq, i + 1, Len(seq))

\* The message of the error the mutation fails with.
UploadErrorMessage(outcome) ==
    CASE outcome = "notOk" -> "Invalid CSV"
      [] outcome = "notOkNoMessage" -> UPLOAD_FAILED
      [] outcome = "okNoJson" -> "Unexpected end of JSON input"
      [] outcome = "throws" -> "Failed to fetch"

BulkFileKept(f) == f

\* onSuccess: setFile(null)
BulkFileAfterSuccess(f) == None

\* The mutation of request i succeeds: onSuccess of useMutation.
BulkUploadSucceeds(i) ==
    /\ i \in 1..Len(bulkCalls)
    /\ bulkCalls' = RemoveAt(bulkCalls, i)
    /\ bulkFile' = BulkFileAfterSuccess(bulkFile)
    /\ bulkOpen' = FALSE
    /\ bulkEvent' = BEv("answered", "ok", << "onSuccess", "onOpenChange(false)" >>, None)
    /\ UNCHANGED << vpVars, authVars, nonBulkVars >>

\* The mutation of request i fails: onError of useMutation.
BulkUploadFails(i, outcome) ==
    /\ i \in 1..Len(bulkCalls)
    /\ outcome # "ok"
    /\ bulkCalls' = RemoveAt(bulkCalls, i)
    /\ bulkEvent' = BEv("answered", outcome, << >>, UploadErrorMessage(outcome))
    /\ UNCHANGED << bulkFile, bulkOpen, vpVars, authVars, nonBulkVars >>


\* ------------------------------------------------------- EditUserDialog

\* The user prop: a record of the users table; a refetch passes a new object.
EditUsers == {[id |-> "u1", name |-> "Ann", rev |-> 1],
              [id |-> "u1", name |-> "Ann", rev |-> 2],
              [id |-> "u2", name |-> "", rev |-> 1]}
\* user = null
NoEditUser == [id |-> None, name |-> None, rev |-> 0]
Names == {"", "Ann", "Bo"}
Passwords == {"", " ", "0", "pw"}
UPDATE_FAILED == "Failed to update user"

EEv(kind, outcome, calls) == [kind |-> kind, outcome |-> outcome, calls |-> calls]

EditRest ==
    /\ editOpen = FALSE
    /\ editUser = NoEditUser
    /\ formData = [name |-> "", password |-> ""]
    /\ editCalls = << >>
    /\ editEvent = EEv("none", None, << >>)

\* The form reset effect with the props u and open.
FormAfterEffect(u, open, data) ==
    IF u # NoEditUser /\ open THEN [name |-> u.name, password |-> ""] ELSE data

\* The parent renders the dialog with other props; the effect on [user, open].
EditProps(u, open) ==
    /\ << u, open >> # << editUser, editOpen >>
    /\ editUser' = u
    /\ editOpen' = open
    /\ formData' = FormAfterEffect(u, open, formData)
    /\ editEvent' = EEv(IF open /\ ~editOpen THEN "open" ELSE "props", None, << >>)
    /\ UNCHANGED << editCalls, vpVars, authVars, nonEditVars >>

\* onChange of the name input.
EditTypeName(name) ==
    /\ editOpen
    /\ name # formData.name
    /\ formData' = [formData EXCEPT !.name = name]
    /\ editEvent' = EEv("type", None, << >>)
    /\ UNCHANGED << editOpen, editUser, editCalls, vpVars, authVars, nonEditVars >>

\* onChange of the password input.
EditTypePassword(pw) ==
    /\ editOpen
    /\ pw # formData.password
    /\ formData' = [formData EXCEPT !.password = pw]
    /\ editEvent' = EEv("type", None, << >>)
    /\ UNCHANGED << editOpen, editUser, editCalls, vpVars, authVars, nonEditVars >>

\* A JavaScript string in a condition: only the empty string is falsy.
TruthyAlways(str) == TRUE

Truthy(str) == str # ""

\* The PATCH payload mutationFn builds from the form data.
Payload(data) ==
    IF Truthy(data.password)
    THEN [name |-> data.name, password |-> data.password]
    ELSE [name |-> data.name]

\* handleSubmit: updateUserMutation.mutate(formData) sends the request.
EditSubmit ==
    /\ editOpen
    /\ Len(editCalls) < MaxInFlight
    /\ editCalls' = Append(editCalls, Payload(formData))
    /\ editEvent' = EEv("submit", None, << >>)
    /\ UNCHANGED << editOpen, editUser, formData, vpVars, authVars, nonEditVars >>

\* The mutation of request i succeeds: onSuccess(), onOpenChange(false).
EditSucceeds(i) ==
    /\ i \in 1..Len(editCalls)
    /\ editCalls' = RemoveAt(editCalls, i)
    /\ editOpen' = FALSE
    /\ formData' = FormAfterEffect(editUser, FALSE, formData)
    /\ editEvent' = EEv("answered", "ok", << "onSuccess", "onOpenChange(false)" >>)
    /\ UNCHANGED << editUser, vpVars, authVars, nonEditVars >>

\* The mutation of request i fails: the error toast only.
EditFails(i) ==
    /\ i \in 1..Len(editCalls)
    /\ editCalls' = RemoveAt(editCalls, i)
    /\ editEvent' = EEv("answered", "failed", << >>)
    /\ UNCHANGED << editOpen, editUser, formData, vpVars, authVars, nonEditVars >>


\* ------------------------------------- VideoPlayer, bounded-polling revision

ATTEMPTS_FAILED == "Failed to initialize YouTube player after multiple attempts."
INIT_FAILED == "Failed to initialize YouTube player."
INVALID_ID == "Invalid YouTube video link or ID."

RevRest ==
    /\ revPhase = "init"
    /\ revVideo \in {"rawA", "bad", "null"}
    /\ revApi = FALSE
    /\ revPoll = FALSE
    /\ revCount = 0
    /\ revInitRef = FALSE
    /\ revPlayer = FALSE
    /\ revError = None

\* One run of the init effect with the video input (on an allowed domain):
\* destroyPlayer, the state resets, the early returns, a new initAttempts and
\* a new poll interval.
RevRunEffect(input) ==
    LET starts == input # "null" /\ parseYouTubeId(input) # None
    IN  /\ revPlayer' = FALSE
        /\ revInitRef' = FALSE
        /\ revError' = IF input # "null" /\ parseYouTubeId(input) = None
                        THEN INVALID_ID ELSE None
        /\ revPoll' = starts
        /\ revCount' = 0

\* The mount commit.
RevMount ==
    /\ revPhase = "init"
    /\ revPhase' = "mounted"
    /\ RevRunEffect(revVideo)
    /\ UNCHANGED << revVideo, revApi, vpVars, authVars, nonRevVars >>

\* The parent passes another video input: the effect's cleanup (clearInterval,
\* destroyPlayer) and the effect again.
RevVideoChange(input) ==
    /\ revPhase = "mounted"
    /\ input # revVideo
    /\ revVideo' = input
    /\ RevRunEffect(input)
    /\ UNCHANGED << revPhase, revApi, vpVars, authVars, nonRevVars >>

\* The iframe_api script finishes loading.
RevApiLoaded ==
    /\ ~revApi
    /\ revApi' = TRUE
    /\ UNCHANGED << revPhase, revVideo, revPoll, revCount, revInitRef, revPlayer, revError,
                    vpVars, authVars, nonRevVars >>

\* tryInit's guards, the component being mounted and its host element found:
\* it goes on to initPlayer, and returns true, when playerInitRef is unset and
\* window.YT.Player exists.
tryInit == ~revInitRef /\ revApi

PollStopsOnInit(tried, count) == tried

\* tryInit() || initAttempts.count >= initAttempts.maxAttempts
PollStops(tried, count) == tried \/ count >= maxAttempts

\* One callback of the poll interval; new YT.Player throws or not.
RevPollTick(throws) ==
    LET count == revCount + 1
        tried == tryInit
        inited == IF tried THEN ~throws ELSE revInitRef
        stops == PollStops(tried, count)
    IN  /\ revPhase = "mounted"
        /\ revPoll
        /\ throws => tried
        /\ revCount' = count
        /\ revInitRef' = inited
        /\ revPlayer' = IF tried /\ ~throws THEN TRUE ELSE revPlayer
        /\ revPoll' = ~stops
        /\ revError' = IF stops /\ count >= maxAttempts /\ ~inited THEN ATTEMPTS_FAILED
                        ELSE IF tried /\ throws THEN INIT_FAILED
                        ELSE revError
        /\ UNCHANGED << revPhase, revVideo, revApi, vpVars, authVars, nonRevVars >>

\* Unmount: the effect's cleanup (clearInterval, destroyPlayer).
RevUnmount ==
    /\ revPhase = "mounted"
    /\ revPhase' = "unmounted"
    /\ revPoll' = FALSE
    /\ revPlayer' = FALSE
    /\ revInitRef' = FALSE
    /\ UNCHANGED << revVideo, revApi, revCount, revError, vpVars, authVars, nonRevVars >>


\* ------------------------------------------------------- specifications

\* The revision at rest: not rendered, a video it would play.
RevIdle == RevRest /\ revVideo = "rawA"

OthersRest ==
    DashRest /\ PageRest /\ ShieldRest /\ NavRest /\ BulkRest /\ EditRest /\ RevIdle


\* Initialisation: the mount commit, re-renders, the readiness poll, the
\* animation-frame callbacks, the player's events and the unmount, for every
\* hostname and video input.
NextInit ==
    \/ Mount
    \/ RenderBlocked
    \/ \E input \in VideoInputs, lesson \in Lessons : VideoChange(input, lesson)
    \/ \E lesson \in Lessons : LessonChange(lesson)
    \/ ApiLoaded
    \/ HostAttached
    \/ \E t \in pollTimers : PollTick(t)
    \/ RafSkip
    \/ RafConstruct
    \/ RafThrow
    \/ PlayerReady(MaxTime)
    \/ \E playing \in BOOLEAN : PlayerStateChange(playing)
    \/ PlayerError
    \/ Unmount

InitInit == InitVPWith(Hostnames, VideoInputs, {NoItem}) /\ AuthRest /\ OthersRest

SpecInit == InitInit /\ [][NextInit]_vars


\* The whole component on an allowed host with one lesson: initialisation as
\* above between two valid video inputs, plus the progress interval, the
\* pointer events and the hide-controls and click timeouts.
NextVP ==
    \/ Mount
    \/ \E input \in {"rawA", "rawB"} : VideoChange(input, lessonId)
    \/ ApiLoaded
    \/ HostAttached
    \/ \E t \in pollTimers : PollTick(t)
    \/ RafSkip
    \/ RafConstruct
    \/ RafThrow
    \/ PlayerReady(MaxTime)
    \/ \E playing \in BOOLEAN : PlayerStateChange(playing)
    \/ PlayerError
    \/ \E t \in progressTimers : ProgressTick(t, MaxTime - 1, MaxTime, TRUE)
    \/ MouseMove
    \/ HideFire
    \/ \E isTouch \in BOOLEAN : ShieldTap(isTouch)
    \/ ClickFire
    \/ Unmount

InitVP == InitVPWith({<<"lms", "pacelab", "in">>}, {"rawA"}, {NoItem}) /\ AuthRest /\ OthersRest

SpecVP == InitVP /\ [][NextVP]_vars

\* Progress and resume of one lesson on an allowed host with the API loaded:
\* what the player reports and what localStorage holds vary; no pointer
\* events.
NextResume ==
    \/ Mount
    \/ \E input \in {"rawA", "rawB"} : VideoChange(input, lessonId)
    \/ HostAttached
    \/ \E t \in pollTimers : PollTick(t)
    \/ RafSkip
    \/ RafConstruct
    \/ RafThrow
    \/ \E dRaw \in RawDurations : PlayerReady(dRaw)
    \/ \E playing \in BOOLEAN : PlayerStateChange(playing)
    \/ \E t \in progressTimers, curRaw \in RawTimes, totRaw \in RawDurations,
          wrote \in BOOLEAN : ProgressTick(t, curRaw, totRaw, wrote)
    \/ Unmount

InitResume ==
    /\ InitVPWith({<<"lms", "pacelab", "in">>}, {"rawA"},
                  {NoItem, Garbage, JsonNoNumber, JsonAt(MaxTime - 6)})
    /\ ytApi = TRUE
    /\ AuthRest
    /\ OthersRest

SpecResume == InitResume /\ [][NextResume]_vars

\* The AuthProvider: bootstrap, login, logout and unmount, in any order.
NextAuth ==
    \/ AuthMount
    \/ \E me \in Profiles : BootOk(me)
    \/ BootFail
    \/ LoginDummy
    \/ LoginStart
    \/ \E data \in LoginBodies : LoginOk(data)
    \/ \E body \in ErrorBodies : LoginNotOk(body)
    \/ LoginThrows
    \/ LogoutStart
    \/ \E outcome \in {"ok", "status", "throws"} : LogoutDone(outcome)
    \/ AuthUnmount

VPRest == InitVPWith({<<"lms", "pacelab", "in">>}, {"null"}, {NoItem}) /\ ytApi = FALSE

InitAuth == VPRest /\ InitAuthOnly /\ OthersRest

SpecAuth == InitAuth /\ [][NextAuth]_vars

\* The mount commit runs the bootstrap effect, and a request that was sent
\* is eventually answered or fails.
SpecAuthFair ==
    /\ SpecAuth
    /\ WF_vars(AuthMount)
    /\ WF_vars((\E me \in Profiles : BootOk(me)) \/ BootFail)

\* The Navbar under a changing auth context.
NextNav ==
    \/ \E u \in NavUsers : NavRender(u)
    \/ \E i \in 1..2 : NavFollow(i)
    \/ \E path \in Pathnames : NavNavigate(path)
    \/ NavToggleMobile
    \/ \E i \in 1..2 : NavFollowMobile(i)
    \/ NavLogout
    \/ NavLogoutDone

InitNav == VPRest /\ AuthRest /\ OthersRest

SpecNav == InitNav /\ [][NextNav]_vars

\* A player whose parent passes other lessons with the same video.
NextLesson ==
    \/ Mount
    \/ \E lesson \in Lessons : LessonChange(lesson)
    \/ HostAttached
    \/ \E t \in pollTimers : PollTick(t)
    \/ RafSkip
    \/ RafConstruct
    \/ RafThrow
    \/ PlayerReady(MaxTime)
    \/ \E playing \in BOOLEAN : PlayerStateChange(playing)
    \/ \E t \in progressTimers, curRaw \in {0, MaxTime - 1}, wrote \in BOOLEAN :
          ProgressTick(t, curRaw, MaxTime, wrote)
    \/ Unmount

InitLesson ==
    /\ InitVPWith({<<"lms", "pacelab", "in">>}, {"rawA"}, {NoItem})
    /\ ytApi = TRUE
    /\ AuthRest
    /\ OthersRest

SpecLesson == InitLesson /\ [][NextLesson]_vars

\* The player's controls, keys, shield and pointer on an allowed host.
NextControls ==
    \/ Mount
    \/ HostAttached
    \/ \E t \in pollTimers : PollTick(t)
    \/ RafSkip
    \/ RafConstruct
    \/ PlayerReady(MaxTime)
    \/ \E playing \in BOOLEAN : PlayerStateChange(playing)
    \/ PlayerError
    \/ MouseMove
    \/ MouseLeave
    \/ HideFire
    \/ \E isTouch \in BOOLEAN : ShieldTap(isTouch)
    \/ ClickFire
    \/ \E key \in PlayerKeys : KeyDown(key)
    \/ PlayButton

InitControls ==
    /\ InitVPWith({<<"lms", "pacelab", "in">>}, {"rawA"}, {NoItem})
    /\ ytApi = TRUE
    /\ AuthRest
    /\ OthersRest

SpecControls == InitControls /\ [][NextControls]_vars

\* The bounded-polling revision of the player.
NextRev ==
    \/ RevMount
    \/ \E input \in {"rawA", "rawB", "bad", "null"} : RevVideoChange(input)
    \/ RevApiLoaded
    \/ \E throws \in BOOLEAN : RevPollTick(throws)
    \/ RevUnmount

InitRev ==
    /\ VPRest
    /\ AuthRest
    /\ DashRest /\ PageRest /\ ShieldRest /\ NavRest /\ BulkRest /\ EditRest
    /\ RevRest

SpecRev == InitRev /\ [][NextRev]_vars

\* The bulk upload dialog.
NextBulk ==
    \/ BulkOpen
    \/ BulkCancel
    \/ \E f \in CsvFiles \cup {None} : BulkChooseFile(f)
    \/ BulkSubmitNoFile
    \/ BulkSubmit
    \/ \E i \in 1..MaxInFlight : BulkUploadSucceeds(i)
    \/ \E i \in 1..MaxInFlight, outcome \in UploadOutcomes : BulkUploadFails(i, outcome)

InitBulk == VPRest /\ AuthRest /\ OthersRest

SpecBulk == InitBulk /\ [][NextBulk]_vars

\* The edit user dialog.
NextEdit ==
    \/ \E u \in EditUsers \cup {NoEditUser}, open \in BOOLEAN : EditProps(u, open)
    \/ \E name \in Names : EditTypeName(name)
    \/ \E pw \in Passwords : EditTypePassword(pw)
    \/ EditSubmit
    \/ \E i \in 1..MaxInFlight : EditSucceeds(i)
    \/ \E i \in 1..MaxInFlight : EditFails(i)

InitEdit == VPRest /\ AuthRest /\ OthersRest

SpecEdit == InitEdit /\ [][NextEdit]_vars

\* The interaction shield over a player on an allowed host: clicks, touches
\* and double clicks, the 280 ms click timeout and the player's state changes.
NextShield ==
    \/ Mount
    \/ HostAttached
    \/ \E t \in pollTimers : PollTick(t)
    \/ RafSkip
    \/ RafConstruct
    \/ PlayerReady(MaxTime)
    \/ \E playing \in BOOLEAN : PlayerStateChange(playing)
    \/ \E isTouch \in BOOLEAN : ShieldTap(isTouch)
    \/ ShieldDoubleClick
    \/ ClickFire
    \/ TouchAges
    \/ Unmount

InitShield ==
    /\ InitVPWith({<<"lms", "pacelab", "in">>}, {"rawA"}, {NoItem})
    /\ ytApi = TRUE
    /\ AuthRest
    /\ OthersRest

SpecShield == InitShield /\ [][NextShield]_vars

\* One viewing of a lesson on the course page: the VideoPlayer on an allowed
\* host with the API loaded, the video MaxTime seconds long, the progress
\* ticks reporting the player's position.
NextCourse ==
    \/ Mount
    \/ HostAttached
    \/ \E t \in pollTimers : PollTick(t)
    \/ RafSkip
    \/ RafConstruct
    \/ PlayerReady(MaxTime)
    \/ \E playing \in BOOLEAN : PlayerStateChange(playing)
    \/ PlaybackAdvance
    \/ \E t \in {0, MaxTime - 1} : HandleSeek(t)
    \/ \E t \in progressTimers :
          autoRequests < MaxRequests /\ ProgressTick(t, playerPos, MaxTime, TRUE)
    \/ HandleMarkComplete
    \/ \E status \in LessonStatuses : SelectSameLesson(status)
    \/ Unmount

InitCourse ==
    /\ InitVPWith({<<"lms", "pacelab", "in">>}, {"rawA"}, {NoItem})
    /\ ytApi = TRUE
    /\ AuthRest
    /\ DashRest
    /\ ShieldRest
    /\ NavRest
    /\ BulkRest
    /\ EditRest
    /\ RevIdle
    /\ pageStatus \in LessonStatuses
    /\ cbStatus = None
    /\ autoRequests = 0
    /\ playerPos = 0
    /\ playedSecs = 0

SpecCourse == InitCourse /\ [][NextCourse]_vars

\* The dashboard's courses query on top of the AuthProvider.
NextDash ==
    \/ AuthMount
    \/ \E me \in Profiles \cup {NoIdProfile} : BootOk(me)
    \/ BootFail
    \/ LoginDummy
    \/ LoginStart
    \/ \E data \in LoginBodies : LoginOk(data)
    \/ LogoutStart
    \/ \E outcome \in {"ok", "status", "throws"} : LogoutDone(outcome)
    \/ FetchCoursesEmpty
    \/ FetchCoursesStart
    \/ \E status \in Statuses, text \in {"", "Forbidden"} : FetchCoursesAnswer(status, text)
    \/ FetchCoursesThrows
    \/ \E outcome \in {"ok", "status", "throws"} : FetchCoursesLoggedOut(outcome)
    \/ AuthUnmount

InitDash == VPRest /\ InitAuthOnly /\ OthersRest

SpecDash == InitDash /\ [][NextDash]_vars

\* Timers and animation frames are scheduled fairly: a poll timer keeps
\* ticking, a pending animation-frame callback runs, a queued state update
\* is rendered, and new YT.Player does not throw every time it is called.
SpecInitFair ==
    /\ SpecInit
    /\ WF_vars(Mount)
    /\ WF_vars(RenderBlocked)
    /\ WF_vars(\E t \in pollTimers : PollTick(t))
    /\ WF_vars(RafSkip)
    /\ WF_vars(RafConstruct \/ RafThrow)
    /\ SF_vars(RafConstruct)

\* ------------------------------------------------------------------ claims

\* C1: once the init effect has re-run for video id B, a player that gets
\* constructed is constructed with id B: whenever a step constructs a player
\* while the current video input resolves to an id, it is that id.
C1_ConstructsCurrentId ==
    (event.kind = "constructed" /\ EffectStartsPoll(youtubeVideoId, blockedByDomain))
        => event.id = parseYouTubeId(youtubeVideoId)

\* C2: within one init cycle (from one run of the init effect to the next) at
\* most one construction of a player succeeds, however the poll ticks and
\* the animation-frame callbacks interleave.
C2_OneConstructionPerCycle == constructedInCycle <= 1

\* A second animation-frame callback of the cycle ran after the player was
\* constructed and returned at the playerInitRef guard.
C2_Witness ==
    /\ constructedInCycle = 1
    /\ event.kind = "raf-skip-init"
    /\ event.id = playerRef.id

\* C7: on a hostname that isAllowedHost rejects no player is ever constructed.
C7_NoPlayerOnBlockedHost ==
    ~isAllowedHost(hostname) => event.kind # "constructed"


ValidInputs == {v \in VideoInputs : parseYouTubeId(v) # None}

\* The component stays mounted on an allowed domain with the valid video
\* input v, an attached host element and the IFrame API available.
C6_Stable(v) ==
    /\ phase = "mounted"
    /\ isAllowedHost(hostname)
    /\ youtubeVideoId = v
    /\ hostEl = "attached"
    /\ ytApi

C6_Done ==
    /\ playerInitRef
    /\ playerRef.live
    /\ pollTimers = {}

C5_NothingAfterUnmount ==
    phase = "unmounted" =>
        /\ pollTimers = {}
        /\ progressTimers = {}
        /\ ~hideTimer.pending
        /\ ~clickTimer.pending
        /\ playerRef = NoPlayer
        /\ event.kind \notin {"onProgress", "constructed"}

\* An animation-frame callback that was pending at the unmount ran after it,
\* and the progress interval was running when the component unmounted.
C5_Witness ==
    /\ phase = "unmounted"
    /\ event.kind = "raf-skip-host"
    /\ progressIntervalRef # NoProgress

\* C3: a progress tick of a player that exposes getCurrentTime and
\* getDuration calls onProgress with the player's current time and duration
\* (0 for undefined), completed being true exactly when duration > 0 and
\* currentTime / duration >= 0.95; a tick returns without the call only
\* when the player does not expose them.
C3_ProgressReport ==
    /\ event.kind = "onProgress" =>
        /\ TickHasPlayer
        /\ event.x = (IF event.rx = Undefined THEN 0 ELSE event.rx)
        /\ event.y = (IF event.ry = Undefined THEN 0 ELSE event.ry)
        /\ event.b <=> (event.y > 0 /\ 20 * event.x >= 19 * event.y)
        /\ currentTime = event.x
        /\ duration = event.y
    /\ event.kind = "tick-return" => ~TickHasPlayer

\* A tick reported a position at exactly 95 % of the duration as completed.
C3_Witness ==
    /\ event.kind = "onProgress"
    /\ event.b
    /\ 20 * event.x = 19 * event.y

\* C4: when a player becomes ready with duration d and the item stored under
\* its lesson's key holds position t, the player is sought to t and
\* currentTime becomes t exactly when 0 < t < d - 5; otherwise (no item, an
\* unparsable item, t <= 0, t >= d - 5) no seek is issued and currentTime is 0.
C4_ResumeRoundTrip ==
    event.kind = "ready" =>
        LET item == storage[event.key]
        IN  IF item.kind = "json" /\ item.t # Undefined /\ 0 < item.t /\ item.t < event.y - 5
            THEN event.x = item.t /\ currentTime = item.t
            ELSE event.x = Undefined /\ currentTime = 0

C8_Outcome ==
    /\ authEvent.kind = "boot-no-token" =>
           ~boot.sent /\ user = NoUser /\ ~loading
    /\ (authEvent.kind = "boot-ok" /\ active) =>
           user = [id |-> authEvent.id, token |-> boot.token] /\ ~loading
    /\ authEvent.kind = "boot-fail" =>
           storedToken = None /\ (active => user = NoUser /\ ~loading)

\* C8: the bootstrap sends no request and leaves user null when no token is
\* stored; an OK /auth/me answer sets user to the returned user carrying the
\* stored token; a non-OK or failed answer removes the stored token and
\* leaves user null; and loading becomes false unless the provider unmounts.
C8_Bootstrap ==
    /\ []C8_Outcome
    /\ (authPhase = "init") ~> (~loading \/ authPhase = "unmounted")

C8_Witness ==
    /\ authEvent.kind = "boot-fail"
    /\ authPhase = "mounted"
    /\ boot.token = "tokA"
    /\ ~loading

\* C9: when logout() resolves the stored token has been removed and user is
\* null, whether the /auth/logout request succeeded, answered with an error
\* status or threw.
C9_LogoutClearsSession ==
    authEvent.kind = "logout-resolved" =>
        storedToken = None /\ (authPhase = "mounted" => user = NoUser)

C9_Witness ==
    /\ authEvent.kind = "logout-resolved"
    /\ authEvent.msg = "throws"
    /\ authPhase = "mounted"

C10_Resolved ==
    authEvent.kind = "login-resolved" =>
        /\ storedToken = authEvent.token
        /\ authPhase = "mounted" => user.token = storedToken /\ user.id = authEvent.id

C10_Rejected ==
    authEvent.kind = "login-rejected" =>
        authEvent.msg = IF authEvent.readable /\ authEvent.message # ""
                        THEN authEvent.message
                        ELSE "Login failed"

C11_Expired ==
    (authEvent.kind = "dash-failed" /\ authEvent.status \in {401, 403}) =>
        /\ authEvent.msg = SESSION_EXPIRED
        /\ storedToken = None
        /\ authPhase = "mounted" => user = NoUser

C11_OtherFailure ==
    authEvent'.kind = "dash-failed" /\ authEvent'.status \notin {401, 403} =>
        /\ authEvent'.msg # SESSION_EXPIRED
        /\ dashCall'.pc = "idle"
        /\ UNCHANGED << user, storedToken >>

C11_NoRequestWithoutSession ==
    (dashCall'.pc = "fetching" /\ dashCall.pc # "fetching") =>
        user.id \notin {None, ""} /\ user.token \notin {None, ""}

\* C11: a 401 or 403 answer to the student-courses request makes
\* fetchStudentCourses complete a logout (stored token removed, user null)
\* before it fails with the session-expired message, and it never fails
\* otherwise on such a status; any other failure logs nobody out; and no
\* request is sent while the user id or token is missing.
C11_DashboardSession ==
    /\ [](C11_Expired /\ (dashCall.pc = "logout" <=> dashCall.status \in {401, 403}))
    /\ [][C11_OtherFailure /\ C11_NoRequestWithoutSession]_vars

\* The session-expired failure after a 403 whose logout request threw, a
\* user having been signed in again meanwhile.
C11_Witness ==
    /\ authEvent.kind = "dash-failed"
    /\ authEvent.status = 403
    /\ authEvent.msg = SESSION_EXPIRED
    /\ authPhase = "mounted"
    /\ loginCall = "fetching"

\* C12: an automatic completion request has been sent only if the whole
\* video was played (as many seconds played as the video is long).
C12_SentOnlyWhenFullyWatched ==
    autoRequests > 0 => playedSecs >= MaxTime

\* C19: during one viewing of a lesson at most one automatic completion
\* request is sent.
C19_AtMostOneRequest == autoRequests <= 1

\* C13: a tap that is followed by no second tap within 280 ms toggles
\* play/pause once (the click timeout fires and is gone) and toggles no
\* fullscreen; a second tap within 280 ms, as in a double click or a double
\* tap, toggles fullscreen exactly once and leaves no play/pause toggle
\* pending.
C13_ShieldTaps ==
    /\ (event.kind = "fullscreen" /\ event.b) =>
           event.x = 1 /\ ~clickTimer.pending
    /\ (event.kind = "command" /\ event.id \in {"playVideo", "pauseVideo"}) =>
           ~clickTimer.pending

\* C14: the navigation items hold the admin links /admin/users and
\* /admin/courses exactly when a user is signed in with role ADMIN or
\* INSTRUCTOR; a signed-in user of another role gets only /dashboard; with
\* no user only /courses is returned.
C14_NavigationItems ==
    LET hrefs == {navItems[i] : i \in 1..Len(navItems)}
        staff == navUser.signedIn /\ navUser.role \in {"ADMIN", "INSTRUCTOR"}
    IN  /\ ("/admin/users" \in hrefs) <=> staff
        /\ ("/admin/courses" \in hrefs) <=> staff
        /\ (navUser.signedIn /\ ~staff) => navItems = << "/dashboard" >>
        /\ ~navUser.signedIn => navItems = << "/courses" >>

\* An instructor's render produced the two admin links.
C14_Witness ==
    /\ navUser = [signedIn |-> TRUE, role |-> "INSTRUCTOR"]
    /\ navItems = << "/admin/users", "/admin/courses" >>

\* C15: a step in which an upload succeeds leaves no selected file, calls
\* onSuccess and then onOpenChange(false) and leaves the dialog closed; a step
\* in which an upload fails calls neither and changes neither the selected
\* file nor the open state; a submit with no file selected sends no request
\* and fails with 'Please select a CSV file'.
C15_UploadStep ==
    LET answered == Len(bulkCalls') < Len(bulkCalls)
        submitted == bulkEvent'.kind = "submit" /\ bulkEvent' # bulkEvent
    IN  /\ (answered /\ bulkEvent'.outcome = "ok") =>
              /\ bulkFile' = None
              /\ bulkEvent'.calls = << "onSuccess", "onOpenChange(false)" >>
              /\ ~bulkOpen'
        /\ (answered /\ bulkEvent'.outcome # "ok") =>
              /\ bulkFile' = bulkFile
              /\ bulkOpen' = bulkOpen
              /\ bulkEvent'.calls = << >>
        /\ (submitted /\ bulkFile = None) =>
              /\ bulkCalls' = bulkCalls
              /\ bulkEvent'.msg = "Please select a CSV file"
        /\ (submitted /\ bulkFile # None) => Len(bulkCalls') = Len(bulkCalls) + 1

C15_Upload == [][C15_UploadStep]_vars

\* An upload succeeded while a second one was still in flight.
C15_Witness ==
    /\ bulkEvent.kind = "answered"
    /\ bulkEvent.outcome = "ok"
    /\ bulkFile = None
    /\ ~bulkOpen
    /\ Len(bulkCalls) = 1

\* C16: every PATCH payload has a password key exactly when the password
\* input was non-empty at the submit, and then carries that input; and when
\* the dialog comes to be open with a user (it was closed, or had no user),
\* the password input is empty.
C16_PayloadStep ==
    /\ Len(editCalls') > Len(editCalls) =>
          LET payload == editCalls'[Len(editCalls')]
          IN  /\ ("password" \in DOMAIN payload) <=> (formData.password # "")
              /\ ("password" \in DOMAIN payload) => payload.password = formData.password
    /\ (~(editOpen /\ editUser # NoEditUser) /\ editOpen' /\ editUser' # NoEditUser) =>
          formData'.password = ""

C16_Password == [][C16_PayloadStep]_vars

\* A payload without a password key is in flight behind one with the key.
C16_Witness ==
    /\ Len(editCalls) = 2
    /\ "password" \in DOMAIN editCalls[1]
    /\ "password" \notin DOMAIN editCalls[2]

\* C17: between a run of the init effect and the construction of that run's
\* player no player is live in playerRef (the previous instance was
\* destroyed), so isReady and isPlaying are false and no progress interval
\* runs until the player of the current run has been constructed.
C17_NoSupersededPlayer ==
    (phase = "mounted" /\ constructedInCycle = 0) =>
        /\ ~playerRef.live
        /\ ~isReady
        /\ ~isPlaying
        /\ progressIntervalRef = NoProgress

\* C18: every progress tick that reaches its report writes and reports under
\* the storage key of the lessonId currently passed to the player.
C18_TickUsesCurrentLesson ==
    event.kind = "onProgress" => event.key = lessonId

\* C20: while the AuthProvider is mounted, a non-null user carries exactly
\* the token held in storage.
C20_UserCarriesStoredToken ==
    (authPhase = "mounted" /\ user # NoUser) => user.token = storedToken

\* C21: no playback command reaches the player while the controls are
\* disabled (player not ready, a video error shown, or the domain blocked),
\* whichever of the button, the keyboard or the shield it came from.
C21_NoCommandWhileDisabled ==
    (event.kind = "command" /\ playerRef # NoPlayer /\ playerRef.api) =>
        ~(~isReady \/ videoIdError # None \/ blockedByDomain)

\* C22: while the player is mounted and the video is not playing, the
\* controls are visible.
C22_ControlsVisibleWhenPaused ==
    (phase = "mounted" /\ ~isPlaying) => showControls

\* C23: in the bounded-polling revision the poll of one effect run makes at
\* most 20 attempts and is stopped by the 20th; when the 20th attempt was made
\* and no player is initialised, the error 'Failed to initialize YouTube
\* player after multiple attempts.' is set; when an attempt initialised the
\* player, the poll stopped at that attempt and that error is not set.
C23_BoundedPolling ==
    /\ revCount <= 20
    /\ revPoll => revCount < 20
    /\ (revPhase = "mounted" /\ revCount = 20 /\ ~revInitRef) =>
          revError = "Failed to initialize YouTube player after multiple attempts."
    /\ (revPhase = "mounted" /\ revInitRef) =>
          /\ ~revPoll
          /\ revPlayer
          /\ revError # "Failed to initialize YouTube player after multiple attempts."

\* Twenty attempts were made without a player, and the error is set.
C23_Witness ==
    /\ revPhase = "mounted"
    /\ revCount = 20
    /\ ~revPoll
    /\ ~revPlayer
    /\ revError = ATTEMPTS_FAILED

====
